---- MODULE Spec2Model ----
(***************************************************************************)
(* Model of epub_process_simulator.py: the word paginator                  *)
(* (paginate_words) and the reader GUI (EPubReaderGUI) whose handlers      *)
(* open a book, navigate its pages and re-paginate it.                     *)
(*                                                                         *)
(* Two specifications are given.  Spec is the GUI: one action per button   *)
(* handler, each handler taken whole (Tk runs one callback at a time and   *)
(* the dialogs are modal).  PaginateSpec runs the loop of paginate_words   *)
(* one iteration per step on inputs drawn from bounded sets.               *)
(***************************************************************************)
EXTENDS Integers, Sequences, FiniteSets, TLC

(* ------------------------------ bounds --------------------------------- *)

\* Longest word list an opened file yields.
MaxWords == 4

\* Largest small page size tried by PaginateSpec (besides 20 and 9999).
MaxPageSize == 5

\* Most values the user types into the words-per-page prompt before the
\* prompt is left (accepted or cancelled).
MaxEntries == 2

(* ------------------------- program constants --------------------------- *)

\* self.words_per_page = 20
DefaultWordsPerPage == 20

\* askinteger(..., minvalue=1, maxvalue=9999)
minvalue == 1

maxvalue == 9999

(* ------------------------------ values --------------------------------- *)

\* Tokens as str.split() returns them: non-empty, no whitespace.
Alphabet == {"a", "b"}

WordSeqs == UNION {[1..n -> Alphabet] : n \in 0..MaxWords}

\* Python's None, and a value that is not None.
None == [none |-> TRUE]

Some(v) == [val |-> v]

Min(a, b) == IF a <= b THEN a ELSE b

(* --------------------------- paginate_words ---------------------------- *)

\* Faulty variant of Slice: the end of the slice is one short.
SliceMutDropsLast(words, lo, hi) == SubSeq(words, lo + 1, Min(hi, Len(words)) - 1)

\* Python's words[lo:hi] for 0 <= lo: the elements at 0-based positions
\* lo .. min(hi, len(words)) - 1; hi past the end is clamped, not an error.
Slice(words, lo, hi) == SubSeq(words, lo + 1, Min(hi, Len(words)))

\* Faulty variant of chunk: the slice is one word too long.
chunkMutOneMore(words, idx, wpp) == Slice(words, idx, idx + wpp + 1)

\* chunk = words[idx : idx + words_per_page]
chunk(words, idx, wpp) == Slice(words, idx, idx + wpp)

\* Faulty variant of NextIdx: the cursor is not advanced.
NextIdxMutStuck(idx, wpp) == idx

\* Faulty variant of NextIdx: the cursor skips a word between pages.
NextIdxMutSkips(idx, wpp) == idx + wpp + 1

\* idx += words_per_page
NextIdx(idx, wpp) == idx + wpp

\* The while loop of paginate_words from cursor idx with pages built so far.
RECURSIVE paginate_loop(_, _, _, _)
paginate_loop(words, wpp, idx, acc) ==
    IF idx < Len(words)
    THEN paginate_loop(words, wpp, NextIdx(idx, wpp),
                       Append(acc, chunk(words, idx, wpp)))
    ELSE acc

paginate_words(words, wpp) == paginate_loop(words, wpp, 0, <<>>)

(* ------------------------------- state --------------------------------- *)

VARIABLES
    words_per_page,     \* self.words_per_page
    pages,              \* self.pages
    current_page_idx,   \* self.current_page_idx
    display,            \* the text held by the Text widget of EInkDisplaySim
    message,            \* the messagebox the last handler run showed, or
                        \* "none" if it showed none
    dialog,             \* how the dialog the last handler run opened ended:
                        \* "file" (askopenfilename returned a path),
                        \* "file_cancelled", "size" (askinteger returned an
                        \* integer), "size_cancelled" (it returned None),
                        \* or "none" if the handler opened none
    all_words,          \* the word list the last successful extraction returned
    paginate_arg,       \* the page size of the last paginate_words call made
                        \* by a handler ({} before any call)
    pw_words,           \* paginate_words: parameter words
    pw_size,            \* paginate_words: parameter words_per_page
    pw_idx,             \* paginate_words: local idx
    pw_pages,           \* paginate_words: local pages
    pw_pc               \* paginate_words: "idle", "loop" or "done"

gui_vars == <<words_per_page, pages, current_page_idx, display, message,
              dialog, all_words, paginate_arg>>

pw_vars == <<pw_words, pw_size, pw_idx, pw_pages, pw_pc>>

vars == <<words_per_page, pages, current_page_idx, display, message,
          dialog, all_words, paginate_arg, pw_words, pw_size, pw_idx, pw_pages, pw_pc>>

(* ---------------------------- collaborators ---------------------------- *)

\* What the open-file dialog and the file system hand to open_epub: the
\* dialog is cancelled (empty path), the chosen file cannot be read or
\* parsed, or it is an ePub whose document items hold these tokens in order.
Files ==
    {[kind |-> "cancel"], [kind |-> "bad"]}
        \cup {[kind |-> "epub", words |-> w] : w \in WordSeqs}

\* extract_text_from_epub: raises on a file epub.read_epub cannot parse,
\* else returns the tokens of all document items in document order.
extract_text_from_epub(f) ==
    IF f.kind = "bad"
    THEN [raised |-> TRUE]
    ELSE [raised |-> FALSE, words |-> f.words]

\* What the user may do at the words-per-page prompt: press Cancel, type
\* something that is no integer, or type an integer and press OK.
EntryValues == {minvalue - 1, minvalue, 2, 3, maxvalue, maxvalue + 1}

Entries ==
    {[kind |-> "cancel"], [kind |-> "text"]}
        \cup {[kind |-> "int", val |-> v] : v \in EntryValues}

EntrySeqs == UNION {[1..n -> Entries] : n \in 1..MaxEntries}

\* Faulty variant of Accepts: no maxvalue is enforced.
AcceptsMutNoMax(v) == v >= minvalue

\* The prompt's validation of a typed integer (minvalue=1, maxvalue=9999).
Accepts(v) == v >= minvalue /\ v <= maxvalue

\* simpledialog.askinteger(..., minvalue=1, maxvalue=9999): the prompt stays
\* open, refusing entries that are no integer or out of range, until an
\* entry is accepted (returned) or the user cancels (None).  A user who
\* stops typing has cancelled.
RECURSIVE askinteger(_)
askinteger(entries) ==
    IF entries = <<>>
    THEN None
    ELSE LET e == Head(entries)
         IN  IF e.kind = "cancel"
             THEN None
             ELSE IF e.kind = "int" /\ Accepts(e.val)
                  THEN Some(e.val)
                  ELSE askinteger(Tail(entries))

\* " ".join(page_words)
RECURSIVE join(_, _)
join(sep, page_words) ==
    IF page_words = <<>>
    THEN ""
    ELSE IF Len(page_words) = 1
         THEN page_words[1]
         ELSE page_words[1] \o sep \o join(sep, Tail(page_words))

\* Faulty variant of Flatten: the last page is left out.
RECURSIVE FlattenMutDropsLast(_)
FlattenMutDropsLast(pgs) ==
    IF Len(pgs) <= 1
    THEN <<>>
    ELSE Head(pgs) \o FlattenMutDropsLast(Tail(pgs))

\* all_words = [word for page in self.pages for word in page]
RECURSIVE Flatten(_)
Flatten(pgs) ==
    IF pgs = <<>> THEN <<>> ELSE Head(pgs) \o Flatten(Tail(pgs))

\* The messagebox texts.
MsgNone == "none"

MsgNoText == "No textual content found in this ePub."

MsgOpenFailed == "Failed to open/parse ePub"

MsgLastPage == "You are on the last page."

MsgFirstPage == "You are on the first page."

MsgOpenFirst == "Open an ePub first before setting words/page."

(* ------------------------------ handlers ------------------------------- *)

\* Faulty variant of render_current_page: draw_text without clear().
render_current_pageMutNoClear(pgs, idx, shown) ==
    IF pgs = <<>>
    THEN shown
    ELSE IF idx >= -Len(pgs) /\ idx < Len(pgs)
         THEN shown \o join(" ", pgs[(idx % Len(pgs)) + 1])
         ELSE shown

\* render_current_page: the display text after the call, given the text
\* before it.  No pages: returns without touching the display.  Otherwise
\* clear(), then draw_text of the joined words of self.pages[idx].  Python
\* indexing: idx in -len..-1 counts from the end, and any other idx outside
\* 0..len-1 raises IndexError after clear() has emptied the display.
render_current_page(pgs, idx, shown) ==
    IF pgs = <<>>
    THEN shown
    ELSE IF idx >= -Len(pgs) /\ idx < Len(pgs)
         THEN join(" ", pgs[(idx % Len(pgs)) + 1])
         ELSE ""

\* EPubReaderGUI.__init__
Init ==
    /\ words_per_page = DefaultWordsPerPage
    /\ pages = <<>>
    /\ current_page_idx = 0
    /\ display = ""
    /\ message = MsgNone
    /\ dialog = "none"
    /\ all_words = <<>>
    /\ paginate_arg = {}
    /\ pw_words = <<>>
    /\ pw_size = DefaultWordsPerPage
    /\ pw_idx = 0
    /\ pw_pages = <<>>
    /\ pw_pc = "idle"

\* Faulty variant of OpenCancelled: the book is dropped before the dialog.
OpenCancelledMutClearsBook(f) ==
    /\ f.kind = "cancel"
    /\ message' = MsgNone
    /\ dialog' = "file_cancelled"
    /\ pages' = <<>>
    /\ current_page_idx' = 0
    /\ UNCHANGED <<words_per_page, display, all_words, paginate_arg>>

\* open_epub with the dialog cancelled: return.
OpenCancelled(f) ==
    /\ f.kind = "cancel"
    /\ message' = MsgNone
    /\ dialog' = "file_cancelled"
    /\ UNCHANGED <<words_per_page, pages, current_page_idx, display,
                   all_words, paginate_arg>>

\* Faulty variant of OpenFailed: the book is dropped before the try block.
OpenFailedMutClearsPages(f) ==
    /\ f.kind # "cancel"
    /\ extract_text_from_epub(f).raised
    /\ message' = MsgOpenFailed
    /\ dialog' = "file"
    /\ pages' = <<>>
    /\ current_page_idx' = 0
    /\ UNCHANGED <<words_per_page, display, all_words, paginate_arg>>

\* open_epub when extract_text_from_epub raises: the except clause shows
\* the error; no assignment of the try block has run.
OpenFailed(f) ==
    /\ f.kind # "cancel"
    /\ extract_text_from_epub(f).raised
    /\ message' = MsgOpenFailed
    /\ dialog' = "file"
    /\ UNCHANGED <<words_per_page, pages, current_page_idx, display,
                   all_words, paginate_arg>>

\* Faulty variant of OpenLoaded: current_page_idx is not reset.
OpenLoadedMutKeepsIdx(f) ==
    /\ f.kind # "cancel"
    /\ ~extract_text_from_epub(f).raised
    /\ dialog' = "file"
    /\ LET words == extract_text_from_epub(f).words
           new_pages == paginate_words(words, words_per_page)
       IN  /\ all_words' = words
           /\ paginate_arg' = {words_per_page}
           /\ pages' = new_pages
           /\ IF new_pages = <<>>
              THEN /\ message' = MsgNoText
                   /\ UNCHANGED display
              ELSE /\ message' = MsgNone
                   /\ display' = render_current_page(new_pages,
                                                     current_page_idx, display)
    /\ UNCHANGED <<words_per_page, current_page_idx>>

\* Faulty variant of OpenLoaded: the page size is reset to the default.
OpenLoadedMutResetsSize(f) ==
    /\ f.kind # "cancel"
    /\ ~extract_text_from_epub(f).raised
    /\ dialog' = "file"
    /\ LET words == extract_text_from_epub(f).words
           new_pages == paginate_words(words, DefaultWordsPerPage)
       IN  /\ all_words' = words
           /\ paginate_arg' = {DefaultWordsPerPage}
           /\ pages' = new_pages
           /\ current_page_idx' = 0
           /\ IF new_pages = <<>>
              THEN /\ message' = MsgNoText
                   /\ UNCHANGED display
              ELSE /\ message' = MsgNone
                   /\ display' = render_current_page(new_pages, 0, display)
    /\ words_per_page' = DefaultWordsPerPage

\* open_epub when extraction returns: paginate, reset the index, then warn
\* and return if there are no pages, else render.
OpenLoaded(f) ==
    /\ f.kind # "cancel"
    /\ ~extract_text_from_epub(f).raised
    /\ dialog' = "file"
    /\ LET words == extract_text_from_epub(f).words
           new_pages == paginate_words(words, words_per_page)
       IN  /\ all_words' = words
           /\ paginate_arg' = {words_per_page}
           /\ pages' = new_pages
           /\ current_page_idx' = 0
           /\ IF new_pages = <<>>
              THEN /\ message' = MsgNoText
                   /\ UNCHANGED display
              ELSE /\ message' = MsgNone
                   /\ display' = render_current_page(new_pages, 0, display)
    /\ UNCHANGED words_per_page

open_epub ==
    \E f \in Files : OpenCancelled(f) \/ OpenFailed(f) \/ OpenLoaded(f)

\* Faulty variant of CanAdvance: the bound is off by one.
CanAdvanceMutOffByOne(idx, pgs) == idx < Len(pgs)

\* if self.current_page_idx < len(self.pages) - 1
CanAdvance(idx, pgs) == idx < Len(pgs) - 1

\* Faulty variant of CanRetreat: the bound is off by one.
CanRetreatMutOffByOne(idx) == idx >= 0

\* if self.current_page_idx > 0
CanRetreat(idx) == idx > 0

\* Faulty variant of next_page: the index advances by two.
next_pageMutStepsTwo ==
    /\ IF pages = <<>>
       THEN /\ message' = MsgNone
            /\ UNCHANGED <<current_page_idx, display>>
       ELSE IF CanAdvance(current_page_idx, pages)
            THEN /\ current_page_idx' = current_page_idx + 2
                 /\ display' = render_current_page(pages, current_page_idx + 2,
                                                   display)
                 /\ message' = MsgNone
            ELSE /\ message' = MsgLastPage
                 /\ UNCHANGED <<current_page_idx, display>>
    /\ dialog' = "none"
    /\ UNCHANGED <<words_per_page, pages, all_words, paginate_arg>>

next_page ==
    /\ IF pages = <<>>
       THEN /\ message' = MsgNone
            /\ UNCHANGED <<current_page_idx, display>>
       ELSE IF CanAdvance(current_page_idx, pages)
            THEN /\ current_page_idx' = current_page_idx + 1
                 /\ display' = render_current_page(pages, current_page_idx + 1,
                                                   display)
                 /\ message' = MsgNone
            ELSE /\ message' = MsgLastPage
                 /\ UNCHANGED <<current_page_idx, display>>
    /\ dialog' = "none"
    /\ UNCHANGED <<words_per_page, pages, all_words, paginate_arg>>

prev_page ==
    /\ IF pages = <<>>
       THEN /\ message' = MsgNone
            /\ UNCHANGED <<current_page_idx, display>>
       ELSE IF CanRetreat(current_page_idx)
            THEN /\ current_page_idx' = current_page_idx - 1
                 /\ display' = render_current_page(pages, current_page_idx - 1,
                                                   display)
                 /\ message' = MsgNone
            ELSE /\ message' = MsgFirstPage
                 /\ UNCHANGED <<current_page_idx, display>>
    /\ dialog' = "none"
    /\ UNCHANGED <<words_per_page, pages, all_words, paginate_arg>>

\* Faulty variant of SetNoBook: the prompt is shown and its size stored.
SetNoBookMutPrompts ==
    /\ pages = <<>>
    /\ message' = MsgNone
    /\ dialog' = "size"
    /\ words_per_page' = minvalue
    /\ UNCHANGED <<pages, current_page_idx, display, all_words, paginate_arg>>

\* set_words_per_page with no pages: the notice, and no prompt.
SetNoBook ==
    /\ pages = <<>>
    /\ message' = MsgOpenFirst
    /\ dialog' = "none"
    /\ UNCHANGED <<words_per_page, pages, current_page_idx, display,
                   all_words, paginate_arg>>

\* Faulty variant of Repaginate: current_page_idx is not reset.
RepaginateMutKeepsIdx(new_wpp) ==
    LET new_pages == paginate_words(Flatten(pages), new_wpp)
    IN  /\ words_per_page' = new_wpp
        /\ paginate_arg' = {new_wpp}
        /\ pages' = new_pages
        /\ UNCHANGED current_page_idx
        /\ display' = render_current_page(new_pages, current_page_idx, display)

\* set_words_per_page once the prompt has returned new_wpp: flatten the
\* pages, store the new size, paginate, reset the index and render.
Repaginate(new_wpp) ==
    LET new_pages == paginate_words(Flatten(pages), new_wpp)
    IN  /\ words_per_page' = new_wpp
        /\ paginate_arg' = {new_wpp}
        /\ pages' = new_pages
        /\ current_page_idx' = 0
        /\ display' = render_current_page(new_pages, 0, display)

\* set_words_per_page with pages: the prompt; if it returns None return,
\* else re-paginate.
SetPrompted(entries) ==
    /\ pages # <<>>
    /\ message' = MsgNone
    /\ LET new_wpp == askinteger(entries)
       IN  IF new_wpp = None
           THEN /\ dialog' = "size_cancelled"
                /\ UNCHANGED <<words_per_page, pages, current_page_idx,
                               display, paginate_arg>>
           ELSE /\ dialog' = "size"
                /\ Repaginate(new_wpp.val)
    /\ UNCHANGED all_words

set_words_per_page ==
    SetNoBook \/ \E entries \in EntrySeqs : SetPrompted(entries)

Next ==
    \/ open_epub /\ UNCHANGED pw_vars
    \/ next_page /\ UNCHANGED pw_vars
    \/ prev_page /\ UNCHANGED pw_vars
    \/ set_words_per_page /\ UNCHANGED pw_vars

Spec == Init /\ [][Next]_vars

(* ----------------------- paginate_words, stepwise ---------------------- *)

PageSizes == (1..MaxPageSize) \cup {DefaultWordsPerPage, maxvalue}

\* A call paginate_words(words, words_per_page) about to enter its loop:
\* pages = [], idx = 0.
PaginateInit ==
    /\ words_per_page = DefaultWordsPerPage
    /\ pages = <<>>
    /\ current_page_idx = 0
    /\ display = ""
    /\ message = MsgNone
    /\ dialog = "none"
    /\ all_words = <<>>
    /\ paginate_arg = {}
    /\ pw_words \in WordSeqs
    /\ pw_size \in PageSizes
    /\ pw_idx = 0
    /\ pw_pages = <<>>
    /\ pw_pc = "loop"

\* One iteration of the while loop.
LoopStep ==
    /\ pw_pc = "loop"
    /\ pw_idx < Len(pw_words)
    /\ pw_pages' = Append(pw_pages, chunk(pw_words, pw_idx, pw_size))
    /\ pw_idx' = NextIdx(pw_idx, pw_size)
    /\ UNCHANGED <<pw_words, pw_size, pw_pc>>
    /\ UNCHANGED gui_vars

\* The loop condition fails: return pages.
Return ==
    /\ pw_pc = "loop"
    /\ ~(pw_idx < Len(pw_words))
    /\ pw_pc' = "done"
    /\ UNCHANGED <<pw_words, pw_size, pw_idx, pw_pages>>
    /\ UNCHANGED gui_vars

PaginateNext == LoopStep \/ Return

PaginateSpec == PaginateInit /\ [][PaginateNext]_vars

\* The call keeps running: the interpreter executes the next iteration, or
\* the return, whenever there is one to execute.
PaginateLive == PaginateSpec /\ WF_vars(PaginateNext)

TypeOK ==
    /\ words_per_page \in Int
    /\ current_page_idx \in Nat
    /\ paginate_arg \subseteq Int
    /\ pw_pc \in {"idle", "loop", "done"}

(* ------------------------------- claims -------------------------------- *)

RECURSIVE SumLen(_)
SumLen(pgs) ==
    IF pgs = <<>> THEN 0 ELSE Len(Head(pgs)) + SumLen(Tail(pgs))

\* ceil(n / p) for n >= 0, p >= 1
Ceil(n, p) == (n + p - 1) \div p

\* The returned value of the stepwise loop is the value of the operator the
\* handlers use.
LoopIsPaginateWords ==
    pw_pc = "done" => pw_pages = paginate_words(pw_words, pw_size)

\* C1: when paginate_words(words, p) returns, with p >= 1, the lengths of
\* the pages sum to len(words) and there are exactly ceil(len(words)/p)
\* pages: none for an empty list, and one page holding all the words when
\* p >= len(words) > 0.
C1_CountAndSum ==
    pw_pc = "done" =>
        /\ SumLen(pw_pages) = Len(pw_words)
        /\ Len(pw_pages) = Ceil(Len(pw_words), pw_size)
        /\ (Len(pw_words) = 0 => pw_pages = <<>>)
        /\ (Len(pw_words) > 0 /\ pw_size >= Len(pw_words)
                => pw_pages = <<pw_words>>)

\* A call that returned several pages, the last one a remainder.
C1_Witness ==
    /\ pw_pc = "done"
    /\ Len(pw_pages) >= 2
    /\ Len(pw_words) % pw_size # 0

\* C2: when paginate_words(words, p) returns, with p >= 1, concatenating
\* the pages in order gives back words exactly.
C2_RoundTrip ==
    pw_pc = "done" => Flatten(pw_pages) = pw_words

\* A call on words that are not all the same token, returned in several pages.
C2_Witness ==
    /\ pw_pc = "done"
    /\ Len(pw_pages) >= 2
    /\ \E i, j \in 1..Len(pw_words) : pw_words[i] # pw_words[j]

\* The page sizes the words-per-page prompt can return.
AcceptedSizes == {v \in EntryValues : v >= 1 /\ v <= 9999}

\* C3: after any sequence of handlers, the loaded pages are the pagination
\* of the words last extracted at the current page size, and paginating
\* the flattened pages at any size p2 equals paginating those words at p2.
C3_RepaginationLossless ==
    /\ pages = paginate_words(all_words, words_per_page)
    /\ \A p2 \in AcceptedSizes :
           paginate_words(Flatten(pages), p2) = paginate_words(all_words, p2)

\* A book re-paginated to a size that splits it into several pages, the
\* last one a remainder, and navigated off its first page.
C3_Witness ==
    /\ words_per_page # DefaultWordsPerPage
    /\ Len(pages) >= 2
    /\ Len(all_words) % words_per_page # 0
    /\ current_page_idx > 0

\* The navigator's states: no_book_loaded, and at_page(i) for a page i of
\* the loaded book.
no_book_loaded == pages = <<>>

at_page(i) == pages # <<>> /\ current_page_idx = i

\* C4: with a book loaded, a prev_page step taken at page 0 leaves the index
\* at 0 and shows "You are on the first page.", a next_page step taken at
\* the last page leaves the index there and shows "You are on the last
\* page."; neither changes the pages.
C4_NavigatorBoundary ==
    [][ /\ (pages # <<>> /\ current_page_idx = 0 /\ prev_page)
            => /\ current_page_idx' = 0
               /\ message' = MsgFirstPage
               /\ pages' = pages
        /\ (pages # <<>> /\ current_page_idx = Len(pages) - 1 /\ next_page)
            => /\ current_page_idx' = Len(pages) - 1
               /\ message' = MsgLastPage
               /\ pages' = pages
      ]_vars

\* The last page of a book of several pages, just after next_page refused.
C4_Witness ==
    /\ message = MsgLastPage
    /\ Len(pages) >= 2
    /\ current_page_idx = Len(pages) - 1

\* C5: an open_epub step whose extraction raises reports the error, and a
\* step that reports the error leaves the pages, the page index and the
\* page size as they were.
C5_ExtractionFailureFrame ==
    [][ /\ OpenFailed([kind |-> "bad"]) => message' = MsgOpenFailed
        /\ message' = MsgOpenFailed
            => /\ pages' = pages
               /\ current_page_idx' = current_page_idx
               /\ words_per_page' = words_per_page
      ]_vars

\* A book still loaded, off its first page, after a failed open.
C5_Witness ==
    /\ message = MsgOpenFailed
    /\ Len(pages) >= 2
    /\ current_page_idx > 0

\* C6: an open_epub step whose extraction returns at least one word ends in
\* at_page(0); one whose extraction returns no word ends in no_book_loaded
\* with the warning shown and the display not drawn.  (The file such a step
\* opened is the one holding the words the step leaves in all_words.)
C6_LoadTransition ==
    [][ LET f == [kind |-> "epub", words |-> all_words']
        IN  OpenLoaded(f) =>
                IF extract_text_from_epub(f).words # <<>>
                THEN at_page(0)' /\ message' # MsgNoText
                ELSE /\ no_book_loaded'
                     /\ message' = MsgNoText
                     /\ display' = display
      ]_vars

\* No book loaded after an empty document was opened over a loaded book
\* (whose page is still on the display).
C6_Witness ==
    /\ message = MsgNoText
    /\ pages = <<>>
    /\ display # ""

\* C7: every page but the last has exactly words_per_page words and the
\* last has between 1 and words_per_page.
C7_WellFormedPages ==
    \A i \in 1..Len(pages) :
        /\ i < Len(pages) => Len(pages[i]) = words_per_page
        /\ i = Len(pages) => Len(pages[i]) >= 1
                             /\ Len(pages[i]) <= words_per_page

\* A re-paginated book of several pages whose last page is short.
C7_Witness ==
    /\ words_per_page # DefaultWordsPerPage
    /\ Len(pages) >= 2
    /\ Len(pages[Len(pages)]) < words_per_page

\* C8: whenever a book is loaded, 0 <= current_page_idx <= page_count - 1.
C8_IndexInRange ==
    pages # <<>> =>
        current_page_idx >= 0 /\ current_page_idx <= Len(pages) - 1

\* A book re-paginated to a single page after several pages were loaded
\* (the display shows more than one word, the default size was replaced).
C8_Witness ==
    /\ words_per_page # DefaultWordsPerPage
    /\ Len(pages) = 1
    /\ Len(all_words) >= 2
    /\ current_page_idx = 0

\* C9: words_per_page is always an integer in 1..9999, and so is the page
\* size of every paginate_words call a handler makes.
C9_PageSizeValid ==
    /\ words_per_page \in 1..9999
    /\ paginate_arg \subseteq 1..9999

\* The prompt's smallest value accepted and passed to paginate_words.
C9_Witness ==
    /\ words_per_page = 1
    /\ paginate_arg = {1}
    /\ pages # <<>>

\* C10: the re-pagination set_words_per_page does with a book loaded, once
\* its prompt has returned a size, ends in at_page(0) on the pagination of
\* the flattened pages at that size, and words_per_page is that size.
C10_RepaginateResets ==
    [][ \A new_wpp \in AcceptedSizes :
            (pages # <<>> /\ Repaginate(new_wpp)) =>
                /\ at_page(0)'
                /\ words_per_page' = new_wpp
                /\ pages' = paginate_words(Flatten(pages), new_wpp)
      ]_vars

\* A book of several pages at a size only the prompt can set, on page 0.
C10_Witness ==
    /\ words_per_page = 2
    /\ Len(pages) >= 2
    /\ current_page_idx = 0
    /\ message = MsgNone

\* C11: in every reachable state (also after a failed open, an empty
\* document, a refused navigation or a cancelled or refused page size) each
\* of the four handlers can run, and opening any document with at least one
\* word leads to at_page(0) with the display showing the words of its first
\* page at the configured size.
C11_NoTerminalFailure ==
    /\ ENABLED open_epub
    /\ ENABLED next_page
    /\ ENABLED prev_page
    /\ ENABLED set_words_per_page
    /\ \A w \in WordSeqs \ {<<>>} :
           ENABLED ( /\ OpenLoaded([kind |-> "epub", words |-> w])
                     /\ at_page(0)'
                     /\ display' = join(" ", Slice(w, 0, words_per_page)) )

\* No book loaded, after a failed open that followed an empty document
\* opened over a loaded book.
C11_Witness ==
    /\ message = MsgOpenFailed
    /\ pages = <<>>
    /\ display # ""

\* C12: a next_page step taken at page i < page_count - 1 ends at page
\* i + 1, a prev_page step taken at page i > 0 ends at page i - 1, both
\* leave the pages and the page size as they were, and after such a
\* next_page step prev_page leads back to page i.
C12_NavigationStep ==
    [][ \A i \in 0..MaxWords :
          /\ (at_page(i) /\ i < Len(pages) - 1 /\ next_page)
                => /\ current_page_idx' = i + 1
                   /\ pages' = pages
                   /\ words_per_page' = words_per_page
                   /\ (ENABLED (prev_page /\ current_page_idx' = i))'
          /\ (at_page(i) /\ i > 0 /\ prev_page)
                => /\ current_page_idx' = i - 1
                   /\ pages' = pages
                   /\ words_per_page' = words_per_page
      ]_vars

\* The middle page of a book of three or more pages, reached by navigation.
C12_Witness ==
    /\ Len(pages) >= 3
    /\ current_page_idx > 0
    /\ current_page_idx < Len(pages) - 1
    /\ dialog = "none"

\* C13: with no book loaded, render_current_page leaves the display as it
\* is, and a next_page, prev_page or set_words_per_page step leaves the
\* pages empty and the index, the page size and the display as they were;
\* set_words_per_page opens no prompt.
C13_NoBookNoOps ==
    [][ no_book_loaded =>
          /\ render_current_page(pages, current_page_idx, display) = display
          /\ (next_page \/ prev_page \/ set_words_per_page)
                => /\ no_book_loaded'
                   /\ current_page_idx' = current_page_idx
                   /\ words_per_page' = words_per_page
                   /\ display' = display
                   /\ dialog' = "none"
      ]_vars

\* set_words_per_page has just refused to run with no book loaded, the
\* page of an earlier book still on the display and a size set earlier.
C13_Witness ==
    /\ message = MsgOpenFirst
    /\ pages = <<>>
    /\ display # ""
    /\ words_per_page # DefaultWordsPerPage

\* C14: a step in which the open-file dialog or the words-per-page prompt
\* is cancelled leaves the pages, the page index, the page size and the
\* display as they were; cancelling either one is such a step.
C14_CancelChangesNothing ==
    [][ /\ OpenCancelled([kind |-> "cancel"]) => dialog' = "file_cancelled"
        /\ (pages # <<>> /\ SetPrompted(<<[kind |-> "cancel"]>>))
              => dialog' = "size_cancelled"
        /\ dialog' \in {"file_cancelled", "size_cancelled"}
              => /\ pages' = pages
                 /\ current_page_idx' = current_page_idx
                 /\ words_per_page' = words_per_page
                 /\ display' = display
      ]_vars

\* The prompt has just been cancelled on a re-paginated book shown off its
\* first page.
C14_Witness ==
    /\ dialog = "size_cancelled"
    /\ words_per_page # DefaultWordsPerPage
    /\ current_page_idx > 0

\* C15: every call paginate_words(words, p) with p >= 1 returns: each
\* iteration of its loop moves idx up by exactly p, to a strictly larger
\* value, the distance len(words) - idx left to cover strictly decreases
\* while the loop runs, and the call eventually reaches its return.
C15_PaginateTerminates ==
    /\ [][ LoopStep => /\ pw_idx' = pw_idx + pw_size
                       /\ pw_idx' > pw_idx
                       /\ Len(pw_words) - pw_idx' < Len(pw_words) - pw_idx
         ]_vars
    /\ <>(pw_pc = "done")

\* A call that has returned after three or more iterations.
C15_Witness ==
    /\ pw_pc = "done"
    /\ Len(pw_pages) >= 3
    /\ pw_idx >= Len(pw_words)

\* With a book loaded the display holds the single-space join of the words
\* of page current_page_idx.
DisplayShowsCurrentPage ==
    pages # <<>> => display = join(" ", pages[current_page_idx + 1])

\* C16: in every state between handlers, with a book loaded the display is
\* the single-space join of the words of page current_page_idx, and with no
\* book loaded the display shows no book text.
C16_DisplayReflectsNavigator ==
    IF pages # <<>>
    THEN display = join(" ", pages[current_page_idx + 1])
    ELSE display = ""

\* C17: words_per_page is 20 at start and changes only in a step whose
\* prompt returned a size; no open_epub step (cancelled, failed, empty or
\* loaded) changes it, and a step that loads a document paginates its words
\* at the words_per_page in force before the step.
C17_PageSizeSurvivesLoads ==
    /\ words_per_page = 20
    /\ [][ /\ dialog' \in {"file", "file_cancelled"}
                 => words_per_page' = words_per_page
           /\ words_per_page' # words_per_page => dialog' = "size"
           /\ OpenLoaded([kind |-> "epub", words |-> all_words'])
                 => /\ pages' = paginate_words(all_words', words_per_page)
                    /\ paginate_arg' = {words_per_page}
         ]_vars

\* A document just opened and split in two pages at size 3, a size only
\* the prompt can have set, before that open.
C17_Witness ==
    /\ dialog = "file"
    /\ message = MsgNone
    /\ words_per_page = 3
    /\ Len(pages) = 2

====
